---- MODULE Spec2Model ----
(***************************************************************************)
(* Model of videoapp/views.py: the HeyGen provider client, its completion  *)
(* waiter (wait_for_completion) and the four Django views built on them.   *)
(*                                                                         *)
(* One inbound call is followed from arrival to its response.  Time is the *)
(* wall clock of time.time() in whole seconds; the provider is an          *)
(* adversary that picks every HTTP reply and how long each reply takes.    *)
(***************************************************************************)
EXTENDS Integers, Sequences, FiniteSets, TLC

(***************************************************************************)
(* Bounds of the model.                                                    *)
(***************************************************************************)
\* largest max_wait / poll_interval argument of a direct wait_for_completion call
MaxWaitArg == 2
MaxPollArg == 2
\* cap on the number of status calls of one waiter run: runs that would poll
\* more often than this are followed up to their MaxCalls-th status call
MaxCalls == 10

(***************************************************************************)
(* Program constants.                                                      *)
(***************************************************************************)
MAX_TEXT == 1500
SUCCESS_CODE == 100
HTTP_TIMEOUT == 30
VIEW_MAX_WAIT == 300
VIEW_POLL_INTERVAL == 5
DEFAULT_WIDTH == 1280
DEFAULT_HEIGHT == 720

(***************************************************************************)
(* Python / JSON values.  Every value carries its type, so that the        *)
(* AttributeError and TypeError raised on a value of the wrong type can be *)
(* modelled; a key that is absent from a dict is absent from the domain of *)
(* its items.                                                              *)
(***************************************************************************)
None == [type |-> "null"]
Str(s) == [type |-> "str", s |-> s]
Num(n) == [type |-> "int", n |-> n]
Arr(n) == [type |-> "list", len |-> n]
Dict(f) == [type |-> "dict", items |-> f]
EmptyDict == Dict(<<>>)

IsDict(v) == v.type = "dict"

\* dict.get(key, default)
Get(d, key, default) == IF key \in DOMAIN d.items THEN d.items[key] ELSE default

\* Python truth value: `if v` / `not v`
Truthy(v) ==
    CASE v.type = "null" -> FALSE
      [] v.type = "str"  -> Len(v.s) > 0
      [] v.type = "int"  -> v.n # 0
      [] v.type = "list" -> v.len > 0
      [] v.type = "dict" -> DOMAIN v.items # {}

\* len(v), defined on the sized types only
HasLen(v) == v.type \in {"str", "list", "dict"}
PyLen(v) ==
    CASE v.type = "str"  -> Len(v.s)
      [] v.type = "list" -> v.len
      [] v.type = "dict" -> Cardinality(DOMAIN v.items)

\* results of a Python call: a returned value or a raised exception
Returned(v) == [raised |-> FALSE, value |-> v]
Raised(kind, msg) == [raised |-> TRUE, exc |-> kind, msg |-> msg]

(***************************************************************************)
(* HTTP replies of the provider, as the requests library presents them.    *)
(***************************************************************************)
ConnError == [kind |-> "conn_error"]
NotJson(code) == [kind |-> "reply", status_code |-> code, json |-> FALSE]
Reply(code, j) == [kind |-> "reply", status_code |-> code, json |-> TRUE, value |-> j]

\* response.raise_for_status()
raise_for_status(reply) == reply.status_code >= 400 /\ reply.status_code < 600

HttpReplies(bodies) ==
    {ConnError, NotJson(200), NotJson(500)} \cup {Reply(200, j) : j \in bodies}

\* how long an outbound call takes: no time at all, or as long as its
\* timeout allows
CallTimes == {0, HTTP_TIMEOUT}

(***************************************************************************)
(* HeyGenAPIClient.check_status                                            *)
(***************************************************************************)
JobIds == {Str("v1"), Str("v2")}

PendingStatuses == {Str("pending"), Str("waiting"), Str("processing"), Str("queued")}

VideoUrls == {Str("https://cdn/v.mp4")}

\* the data object of a status payload
StatusData ==
    \* still running, unknown or missing status
    {Dict([status |-> s]) : s \in PendingStatuses}
    \cup {EmptyDict, Dict([status |-> None])}
    \* completed, with and without a usable URL
    \cup {Dict([status |-> Str("completed"), video_url |-> u,
                thumbnail_url |-> Str("https://cdn/t.jpg"), duration |-> Num(7)])
            : u \in VideoUrls}
    \cup {Dict([status |-> Str("completed"), video_url |-> None]),
          Dict([status |-> Str("completed")])}
    \* failed, with the error detail in each shape a provider may send
    \cup {Dict([status |-> Str("failed"), error |-> e])
            : e \in {Dict([message |-> Str("x")]), EmptyDict, None, Str("x")}}
    \cup {Dict([status |-> Str("failed")])}

\* decoded JSON bodies of the status endpoint
StatusBodies ==
    {Dict([code |-> Num(SUCCESS_CODE), data |-> d]) : d \in StatusData}
    \cup {Dict([code |-> Num(SUCCESS_CODE)]),
          Dict([code |-> Num(SUCCESS_CODE), data |-> None]),
          Dict([code |-> Num(40001), message |-> Str("video not found")]),
          Dict([code |-> Num(40001), message |-> None]),
          Dict([code |-> Num(40001)]),
          Dict([message |-> Str("unauthorized")]),
          Arr(0)}

StatusReplies == HttpReplies(StatusBodies)

\* requests.get(...); raise_for_status(); return response.json()
\* every failure is re-raised as Exception("Failed to check status: ...")
check_status(reply) ==
    IF reply.kind = "conn_error" THEN Raised("Exception", "Failed to check status")
    ELSE IF raise_for_status(reply) THEN Raised("Exception", "Failed to check status")
    ELSE IF ~reply.json THEN Raised("Exception", "Failed to check status")
    ELSE Returned(reply.value)

(***************************************************************************)
(* HeyGenAPIClient.wait_for_completion: one pass through the loop body.    *)
(* The result says whether the function returns (and what) or sleeps.      *)
(***************************************************************************)
Return(o) == [returns |-> TRUE, outcome |-> o]
SleepNext == [returns |-> FALSE]

AppErrorOutcome(result) ==
    [success |-> FALSE,
     error |-> Get(result, "message", Str("Unknown error")),
     status |-> Str("failed")]

\* slip: the thumbnail is passed on as the video
CompletedOutcome_ThumbAsUrl(data) ==
    [success |-> TRUE,
     video_url |-> Get(data, "thumbnail_url", None),
     thumbnail_url |-> Get(data, "thumbnail_url", None),
     duration |-> Get(data, "duration", None),
     status |-> Get(data, "status", None)]

CompletedOutcome(data) ==
    [success |-> TRUE,
     video_url |-> Get(data, "video_url", None),
     thumbnail_url |-> Get(data, "thumbnail_url", None),
     duration |-> Get(data, "duration", None),
     status |-> Get(data, "status", None)]

FailedOutcome(data, error_info) ==
    [success |-> FALSE,
     error |-> Get(error_info, "message", Str("Video generation failed")),
     status |-> Get(data, "status", None)]

TimeoutOutcome ==
    [success |-> FALSE,
     error |-> Str("Video generation timed out"),
     status |-> Str("timeout")]

\* slip: `else` in place of `elif status == 'failed'`
LoopBody_ElseFails(res) ==
    IF res.raised THEN SleepNext
    ELSE LET result == res.value IN
      IF ~IsDict(result) THEN SleepNext
      ELSE IF Get(result, "code", None) # Num(SUCCESS_CODE)
           THEN Return(AppErrorOutcome(result))
      ELSE LET data == Get(result, "data", EmptyDict) IN
        IF ~IsDict(data) THEN SleepNext
        ELSE LET status == Get(data, "status", None) IN
          IF status = Str("completed") THEN Return(CompletedOutcome(data))
          ELSE IF TRUE
               THEN LET error_info == Get(data, "error", EmptyDict) IN
                    IF ~IsDict(error_info) THEN SleepNext
                    ELSE Return(FailedOutcome(data, error_info))
          ELSE SleepNext

\* slip: no try/except around the pass, a failing call ends the wait
LoopBody_RaiseFails(res) ==
    IF res.raised THEN Return([success |-> FALSE, error |-> Str(res.msg), status |-> Str("failed")])
    ELSE LET result == res.value IN
      IF ~IsDict(result) THEN SleepNext
      ELSE IF Get(result, "code", None) # Num(SUCCESS_CODE)
           THEN Return(AppErrorOutcome(result))
      ELSE LET data == Get(result, "data", EmptyDict) IN
        IF ~IsDict(data) THEN SleepNext
        ELSE LET status == Get(data, "status", None) IN
          IF status = Str("completed") THEN Return(CompletedOutcome(data))
          ELSE IF status = Str("failed")
               THEN LET error_info == Get(data, "error", EmptyDict) IN
                    IF ~IsDict(error_info) THEN SleepNext
                    ELSE Return(FailedOutcome(data, error_info))
          ELSE SleepNext

\* slip: an application error code is handled like a failing call
LoopBody_AppErrorRetried(res) ==
    IF res.raised THEN SleepNext
    ELSE LET result == res.value IN
      IF ~IsDict(result) THEN SleepNext
      ELSE IF Get(result, "code", None) # Num(SUCCESS_CODE)
           THEN SleepNext
      ELSE LET data == Get(result, "data", EmptyDict) IN
        IF ~IsDict(data) THEN SleepNext
        ELSE LET status == Get(data, "status", None) IN
          IF status = Str("completed") THEN Return(CompletedOutcome(data))
          ELSE IF status = Str("failed")
               THEN LET error_info == Get(data, "error", EmptyDict) IN
                    IF ~IsDict(error_info) THEN SleepNext
                    ELSE Return(FailedOutcome(data, error_info))
          ELSE SleepNext

LoopBody(res) ==
    IF res.raised THEN SleepNext                       \* except Exception
    ELSE LET result == res.value IN
      IF ~IsDict(result) THEN SleepNext                \* AttributeError, caught
      ELSE IF Get(result, "code", None) # Num(SUCCESS_CODE)
           THEN Return(AppErrorOutcome(result))
      ELSE LET data == Get(result, "data", EmptyDict) IN
        IF ~IsDict(data) THEN SleepNext                \* AttributeError, caught
        ELSE LET status == Get(data, "status", None) IN
          IF status = Str("completed") THEN Return(CompletedOutcome(data))
          ELSE IF status = Str("failed")
               THEN LET error_info == Get(data, "error", EmptyDict) IN
                    IF ~IsDict(error_info) THEN SleepNext   \* AttributeError, caught
                    ELSE Return(FailedOutcome(data, error_info))
          ELSE SleepNext

\* What the provider said in a check_status result, read off the result
\* itself: the call raised; the payload is not of the documented shape; the
\* job has ended (application error code, completed, failed); or it has not.
Kind(res) ==
    IF res.raised THEN "raised"
    ELSE LET result == res.value IN
      IF ~IsDict(result) THEN "malformed"
      ELSE IF Get(result, "code", None) # Num(SUCCESS_CODE) THEN "terminal"
      ELSE IF ~IsDict(Get(result, "data", EmptyDict)) THEN "malformed"
      ELSE IF Get(Get(result, "data", EmptyDict), "status", None)
                \in {Str("completed"), Str("failed")} THEN "terminal"
      ELSE "pending"

\* slip: the elapsed time is taken with the wrong sign
LoopGuard_SignSlip(t, start, limit) == start - t < limit

\* slip: `<=`, a pass may begin at the deadline itself
LoopGuard_Inclusive(t, start, limit) == t - start <= limit

\* while time.time() - start_time < max_wait
LoopGuard(t, start, limit) == t - start < limit

(***************************************************************************)
(* HeyGenAPIClient.generate_video: the submit POST.                        *)
(***************************************************************************)
DEFAULT_AVATAR == Str("Lina_Dress_Sitting_Side_public")
DEFAULT_VOICE == Str("119caed25533477ba63822d5d1552d25")

Min(a, b) == IF a < b THEN a ELSE b

\* slip: text[-n:], the end of the text is kept
Slice_KeepsEnd(text, n) ==
    IF text.type = "list" THEN Arr(Min(n, text.len))
    ELSE LET l == Len(text.s) IN Str(SubSeq(text.s, l - Min(n, l) + 1, l))

\* text[:n] on a str or a list
Slice(text, n) ==
    IF text.type = "list" THEN Arr(Min(n, text.len))
    ELSE Str(SubSeq(text.s, 1, Min(n, Len(text.s))))

Payload(text, avatar_id, voice_id) ==
    [avatar_id |-> IF Truthy(avatar_id) THEN avatar_id ELSE DEFAULT_AVATAR,
     voice_id |-> IF Truthy(voice_id) THEN voice_id ELSE DEFAULT_VOICE,
     input_text |-> Slice(text, MAX_TEXT),
     width |-> DEFAULT_WIDTH,
     height |-> DEFAULT_HEIGHT]

\* decoded JSON bodies of the submit endpoint
SubmitBodies ==
    {Dict([error |-> None, data |-> Dict([video_id |-> v])]) : v \in JobIds}
    \cup {Dict([data |-> Dict([video_id |-> Str("v1")])]),
          Dict([error |-> Str("quota exceeded")]),
          Dict([error |-> Str("quota exceeded"),
                data |-> Dict([video_id |-> Str("v1")])]),
          Dict([error |-> None, data |-> Dict([video_id |-> None])]),
          Dict([data |-> Dict([video_id |-> Str("")])]),
          Dict([data |-> EmptyDict]),
          Dict([data |-> None]),
          EmptyDict,
          Arr(0)}

SubmitReplies == HttpReplies(SubmitBodies)

\* slip: the error field of the reply is not looked at
client_generate_video_IgnoresErrorField(reply, json_is_request_error) ==
    IF reply.kind = "conn_error"
    THEN Raised("Exception", "Failed to connect to API")
    ELSE IF raise_for_status(reply) THEN Raised("Exception", "HTTP Error")
    ELSE IF ~reply.json
         THEN IF json_is_request_error
              THEN Raised("Exception", "Failed to connect to API")
              ELSE Raised("ValueError", "Expecting value")
    ELSE LET result == reply.value IN
      IF ~IsDict(result)
      THEN Raised("AttributeError", "object has no attribute 'get'")
      ELSE Returned(result)

\* json_is_request_error: whether the installed requests library raises its
\* JSON decoding error as a RequestException (>= 2.27) or as a plain ValueError
client_generate_video(reply, json_is_request_error) ==
    IF reply.kind = "conn_error"
    THEN Raised("Exception", "Failed to connect to API")
    ELSE IF raise_for_status(reply) THEN Raised("Exception", "HTTP Error")
    ELSE IF ~reply.json
         THEN IF json_is_request_error
              THEN Raised("Exception", "Failed to connect to API")
              ELSE Raised("ValueError", "Expecting value")
    ELSE LET result == reply.value IN
      IF ~IsDict(result)
      THEN Raised("AttributeError", "object has no attribute 'get'")
      ELSE IF Truthy(Get(result, "error", None))
           THEN Raised("Exception", "API Error")
      ELSE Returned(result)

(***************************************************************************)
(* HeyGenAPIClient.list_avatars / list_voices: the catalog GET.            *)
(***************************************************************************)
CatalogBodies(kind) ==
    {Dict([data |-> Dict([k \in {kind} |-> Arr(2)])]),
     Dict([error |-> None, data |-> Dict([k \in {kind} |-> Arr(0)])]),
     Dict([data |-> Dict([k \in {kind} |-> None])]),
     Dict([error |-> None, data |-> EmptyDict]),
     Dict([error |-> Str("unauthorized")]),
     Dict([data |-> None]),
     Dict([error |-> None]),
     EmptyDict,
     Arr(1),
     Arr(0)}

CatalogReplies(kind) == HttpReplies(CatalogBodies(kind))

\* try: get; raise_for_status; return json   except Exception: return None
client_list_avatars(reply) ==
    IF reply.kind = "conn_error" THEN None
    ELSE IF raise_for_status(reply) THEN None
    ELSE IF ~reply.json THEN None
    ELSE reply.value

client_list_voices(reply) ==
    IF reply.kind = "conn_error" THEN None
    ELSE IF raise_for_status(reply) THEN None
    ELSE IF ~reply.json THEN None
    ELSE reply.value

(***************************************************************************)
(* The views.  A JsonResponse is its HTTP status and its JSON payload.     *)
(***************************************************************************)
JsonResponse(payload, code) == [status_code |-> code, json |-> payload]

\* inbound request bodies: bytes that are not JSON, or the JSON they encode
Garbage == [type |-> "garbage"]

RECURSIVE Rep(_)
\* a text of n characters
Rep(n) == IF n = 0 THEN ""
          ELSE IF n % 2 = 1 THEN Rep(n - 1) \o "a"
          ELSE LET h == Rep(n \div 2) IN h \o h

RequestBodies ==
    {Garbage, Arr(0), EmptyDict,
     Dict([prompt |-> None]),
     Dict([prompt |-> Str("")]),
     Dict([prompt |-> Num(7)]),
     Dict([prompt |-> Str(Rep(MAX_TEXT))]),
     Dict([prompt |-> Str(Rep(MAX_TEXT + 1))]),
     Dict([prompt |-> Str("hello"), duration |-> Num(5), aspect_ratio |-> Str("16:9"),
           avatar_id |-> Str("av1"), voice_id |-> Str("vo1")]),
     Dict([prompt |-> Str("hello"), duration |-> Num(11), aspect_ratio |-> Str("21:9")]),
     Dict([duration |-> Num(2), aspect_ratio |-> Str("21:9")]),
     Dict([prompt |-> Str(Rep(MAX_TEXT + 1)), duration |-> Num(11)])}

\* json.loads(request.body)
json_loads(raw) ==
    IF raw.type = "garbage" THEN Raised("JSONDecodeError", "Expecting value")
    ELSE Returned(raw)

\* os.getenv('HEYGEN_API_KEY')
ApiKeys == {None, Str(""), Str("sk-test")}

InternalError(msg) ==
    JsonResponse([success |-> FALSE,
                  error |-> Str("Internal server error: " \o msg)], 500)

Respond(r) == [responds |-> TRUE, response |-> r]
Proceed == [responds |-> FALSE]

\* slip: the limit is off by one
PromptTooLong_OffByOne(prompt) == PyLen(prompt) > MAX_TEXT + 1

\* if len(prompt) > 1500
PromptTooLong(prompt) == PyLen(prompt) > MAX_TEXT

\* slip: `if api_key is None`, an empty key passes
KeyMissing_NoneOnly(key) == key = None

\* if not api_key
KeyMissing(key) == ~Truthy(key)

\* generate_video view, from the request to the point where it calls
\* client.generate_video
generate_video_checks(raw, key) ==
    LET parsed == json_loads(raw) IN
    IF parsed.raised
    THEN Respond(JsonResponse([success |-> FALSE,
                               error |-> Str("Invalid JSON in request body")], 400))
    ELSE LET data == parsed.value IN
      IF ~IsDict(data)
      THEN Respond(InternalError("object has no attribute 'get'"))
      ELSE LET prompt == Get(data, "prompt", None) IN
        IF ~Truthy(prompt)
        THEN Respond(JsonResponse([success |-> FALSE,
                                   error |-> Str("Prompt is required")], 400))
        ELSE IF ~HasLen(prompt)
             THEN Respond(InternalError("object has no len()"))
        ELSE IF PromptTooLong(prompt)
             THEN Respond(JsonResponse(
                    [success |-> FALSE,
                     error |-> Str("Text must be less than 1500 characters")], 400))
        ELSE IF KeyMissing(key)
             THEN Respond(JsonResponse(
                    [success |-> FALSE,
                     error |-> Str("API key not configured. Add HEYGEN_API_KEY to your .env file")],
                    500))
        ELSE IF prompt.type = "dict"                  \* prompt[:100]
             THEN Respond(InternalError("unhashable type: 'slice'"))
        ELSE Proceed

\* slip: the `if not video_id` check is left out
generate_video_submitted_NoIdCheck(res) ==
    IF res.raised THEN Respond(InternalError(res.msg))
    ELSE LET data == Get(res.value, "data", EmptyDict) IN
      IF ~IsDict(data) THEN Respond(InternalError("object has no attribute 'get'"))
      ELSE [responds |-> FALSE, video_id |-> Get(data, "video_id", None)]

\* generate_video view, after client.generate_video: either a response or
\* the job handle to wait for
generate_video_submitted(res) ==
    IF res.raised THEN Respond(InternalError(res.msg))
    ELSE LET data == Get(res.value, "data", EmptyDict) IN
      IF ~IsDict(data) THEN Respond(InternalError("object has no attribute 'get'"))
      ELSE IF ~Truthy(Get(data, "video_id", None))
           THEN Respond(JsonResponse([success |-> FALSE,
                                      error |-> Str("No video ID received from API")], 500))
      ELSE [responds |-> FALSE, video_id |-> Get(data, "video_id", None)]

\* slip: the failure branch answers with a message of its own
generate_video_result_OwnMessage(result, id) ==
    IF result.success
    THEN JsonResponse([success |-> TRUE,
                       video_url |-> result.video_url,
                       thumbnail_url |-> result.thumbnail_url,
                       duration |-> result.duration,
                       video_id |-> id], 200)
    ELSE JsonResponse([success |-> FALSE,
                       error |-> Str("Video generation failed"),
                       video_id |-> id], 500)

\* generate_video view, after wait_for_completion
generate_video_result(result, id) ==
    IF result.success
    THEN JsonResponse([success |-> TRUE,
                       video_url |-> result.video_url,
                       thumbnail_url |-> result.thumbnail_url,
                       duration |-> result.duration,
                       video_id |-> id], 200)
    ELSE JsonResponse([success |-> FALSE,
                       error |-> result.error,
                       video_id |-> id], 500)

KeyNotConfigured ==
    JsonResponse([success |-> FALSE, error |-> Str("API key not configured")], 500)

\* list_avatars / list_voices views, after the client call
catalog_result(result, kind, failure) ==
    IF Truthy(result) /\ ~IsDict(result)
    THEN JsonResponse([success |-> FALSE,
                       error |-> Str("object has no attribute 'get'")], 500)
    ELSE IF Truthy(result) /\ Get(result, "error", None) = None
    THEN LET data == Get(result, "data", EmptyDict) IN
         IF ~IsDict(data)
         THEN JsonResponse([success |-> FALSE,
                            error |-> Str("object has no attribute 'get'")], 500)
         ELSE JsonResponse([k \in {"success", kind} |->
                              IF k = "success" THEN TRUE
                              ELSE Get(data, kind, Arr(0))], 200)
    ELSE JsonResponse([success |-> FALSE, error |-> Str(failure)], 500)

\* test_api view, after client.list_avatars
test_api_result(result) ==
    IF Truthy(result) /\ ~IsDict(result)
    THEN JsonResponse([success |-> FALSE,
                       error |-> Str("object has no attribute 'get'")], 200)
    ELSE IF Truthy(result) /\ Get(result, "error", None) = None
    THEN LET data == Get(result, "data", EmptyDict) IN
         IF ~IsDict(data)
         THEN JsonResponse([success |-> FALSE,
                            error |-> Str("object has no attribute 'get'")], 200)
         ELSE LET avatars == Get(data, "avatars", Arr(0)) IN
              IF ~HasLen(avatars)
              THEN JsonResponse([success |-> FALSE,
                                 error |-> Str("object has no len()")], 200)
              ELSE JsonResponse([success |-> TRUE,
                                 message |-> Str("API connection successful!"),
                                 avatar_count |-> Num(PyLen(avatars))], 200)
    ELSE JsonResponse([success |-> FALSE,
                       error |-> Str("API connection failed"),
                       details |-> result], 200)

(***************************************************************************)
(* State.                                                                  *)
(***************************************************************************)
VARIABLES
    op,             \* the entry point that was called
    body,           \* request.body of a generate_video request
    api_key,        \* os.getenv('HEYGEN_API_KEY')
    text,           \* text argument of HeyGenAPIClient.generate_video, None until called
    submit_reply,   \* what the submit POST came back with, None until it is sent
    pc,             \* where the call is: start, submit, enter, poll, sleep, done
    now,            \* time.time()
    response,       \* the view's JsonResponse, None until it returns
    payload,        \* JSON payload of the submit POST, None until it is sent
    video_id,       \* wait_for_completion argument
    max_wait,       \* wait_for_completion argument
    poll_interval,  \* wait_for_completion argument
    start_time,     \* wait_for_completion local
    outcome,        \* wait_for_completion return value, None until it returns
    status_result,  \* check_status result of the loop pass in progress, else None
    seen,           \* kinds (see Kind) of the check_status results of earlier passes
    calls,          \* outbound HTTP calls made so far, per endpoint
    queried,        \* video ids sent to the status endpoint
    sleeps,         \* time.sleep(poll_interval) calls made so far
    \* two generate_video requests served at the same time (see ConcSpec)
    threads,        \* per request: its position, its clock, what it sent and got
    frames,         \* per call frame of the view: the locals video_id, start_time
    provider        \* the provider: jobs' behaviour, handles issued, calls served

vars == <<op, body, api_key, text, submit_reply, pc, now, response, payload, video_id, max_wait,
          poll_interval, start_time, outcome, status_result, seen, calls,
          queried, sleeps, threads, frames, provider>>

\* the variables of one request served on its own, and of two served together
one_vars == <<op, body, api_key, text, submit_reply, pc, now, response, payload,
              video_id, max_wait, poll_interval, start_time, outcome,
              status_result, seen, calls, queried, sleeps>>
two_vars == <<threads, frames, provider>>

Views == {"generate_video", "list_avatars", "list_voices", "test_api"}

MaxWaitArgs == -1..MaxWaitArg
PollArgs == 0..MaxPollArg

NoCalls == [submit |-> 0, status |-> 0, catalog |-> 0]

Idle ==
    /\ now = 0
    /\ response = None
    /\ payload = None
    /\ submit_reply = None
    /\ start_time = 0
    /\ outcome = None
    /\ status_result = None
    /\ seen = {}
    /\ calls = NoCalls
    /\ queried = {}
    /\ sleeps = 0

\* a view is called with a request
InitView ==
    /\ op \in Views
    /\ api_key \in ApiKeys
    /\ body \in IF op = "generate_video" THEN RequestBodies ELSE {None}
    /\ text = None
    /\ pc = "start"
    /\ video_id = None
    /\ max_wait = 0
    /\ poll_interval = 0

\* wait_for_completion is called on its own, as a test of the client would
InitWaiter ==
    /\ op = "wait_for_completion"
    /\ api_key = Str("sk-test")
    /\ body = None
    /\ text = None
    /\ pc = "enter"
    /\ video_id \in JobIds
    /\ max_wait \in MaxWaitArgs
    /\ poll_interval \in PollArgs

\* texts on both sides of the 1500 character limit, with a tail or a head
\* that tells the two ends of the text apart
ClientTexts ==
    {Str("hello"),
     Str(Rep(MAX_TEXT - 1) \o "b"),
     Str(Rep(MAX_TEXT) \o "b"),
     Str("b" \o Rep(MAX_TEXT)),
     Str(Rep(MAX_TEXT - 1) \o "bcd")}

\* HeyGenAPIClient.generate_video is called on its own, with the default
\* avatar_id and voice_id
InitClient ==
    /\ op = "HeyGenAPIClient.generate_video"
    /\ api_key = Str("sk-test")
    /\ body = None
    /\ text \in ClientTexts
    /\ pc = "submit"
    /\ video_id = None
    /\ max_wait = 0
    /\ poll_interval = 0

\* no second request is in progress
NoRequests ==
    /\ threads = <<>>
    /\ frames = <<>>
    /\ provider = None

Init == Idle /\ (InitView \/ InitWaiter \/ InitClient) /\ NoRequests

(***************************************************************************)
(* Actions.                                                                *)
(***************************************************************************)
waiter_vars == <<video_id, max_wait, poll_interval, start_time, outcome,
                 status_result, seen, queried, sleeps>>

\* generate_video view: parse, validate, read the API key
generate_video ==
    /\ UNCHANGED two_vars
    /\ pc = "start"
    /\ op = "generate_video"
    /\ LET checked == generate_video_checks(body, api_key) IN
       IF checked.responds
       THEN /\ response' = checked.response
            /\ pc' = "done"
            /\ UNCHANGED text
       ELSE /\ text' = Get(body, "prompt", None)
            /\ pc' = "submit"
            /\ UNCHANGED response
    /\ UNCHANGED <<op, body, api_key, submit_reply, now, payload, calls,
                   waiter_vars>>

\* HeyGenAPIClient.generate_video(text, avatar_id, voice_id) and, when the
\* view called it, what the view does with its result, up to the call of
\* wait_for_completion
submit ==
    /\ UNCHANGED two_vars
    /\ pc = "submit"
    /\ \E reply \in SubmitReplies, d \in CallTimes, json_is_request_error \in BOOLEAN :
         LET by_view == op = "generate_video"
             sent == Payload(text,
                             IF by_view THEN Get(body, "avatar_id", None) ELSE None,
                             IF by_view THEN Get(body, "voice_id", None) ELSE None)
             submitted == generate_video_submitted(
                              client_generate_video(reply, json_is_request_error))
         IN /\ payload' = sent
            /\ submit_reply' = reply
            /\ now' = now + d
            /\ calls' = [calls EXCEPT !.submit = @ + 1]
            /\ IF ~by_view
               THEN /\ pc' = "done"
                    /\ UNCHANGED <<response, video_id, max_wait, poll_interval>>
               ELSE IF submitted.responds
               THEN /\ response' = submitted.response
                    /\ pc' = "done"
                    /\ UNCHANGED <<video_id, max_wait, poll_interval>>
               ELSE /\ video_id' = submitted.video_id
                    /\ max_wait' = VIEW_MAX_WAIT
                    /\ poll_interval' = VIEW_POLL_INTERVAL
                    /\ pc' = "enter"
                    /\ UNCHANGED response
    /\ UNCHANGED <<op, body, api_key, text, start_time, outcome, status_result,
                   seen, queried, sleeps>>

\* wait_for_completion: start_time = time.time()
enter ==
    /\ UNCHANGED two_vars
    /\ pc = "enter"
    /\ start_time' = now
    /\ pc' = "poll"
    /\ UNCHANGED <<op, body, api_key, text, submit_reply, now, response, payload,
                   video_id, max_wait,
                   poll_interval, outcome, status_result, seen, calls,
                   queried, sleeps>>

\* wait_for_completion returns o; when the view called it, the view answers
Finish(o) ==
    /\ outcome' = o
    /\ pc' = "done"
    /\ response' = IF op = "generate_video"
                   THEN generate_video_result(o, video_id)
                   ELSE response

\* wait_for_completion: the loop guard holds, one pass through the loop body
poll ==
    /\ UNCHANGED two_vars
    /\ pc = "poll"
    /\ LoopGuard(now, start_time, max_wait)
    /\ calls.status < MaxCalls
    /\ \E reply \in StatusReplies, d \in CallTimes :
         LET res == check_status(reply)
             step == LoopBody(res)
         IN /\ now' = now + d
            /\ calls' = [calls EXCEPT !.status = @ + 1]
            /\ queried' = queried \cup {video_id}
            /\ status_result' = res
            /\ IF step.returns
               THEN /\ Finish(step.outcome)
                    /\ UNCHANGED seen
               ELSE /\ pc' = "sleep"
                    /\ seen' = seen \cup {Kind(res)}
                    /\ UNCHANGED <<outcome, response>>
    /\ UNCHANGED <<op, body, api_key, text, submit_reply, payload, video_id,
                   max_wait, poll_interval,
                   start_time, sleeps>>

\* wait_for_completion: time.sleep(poll_interval)
sleep ==
    /\ UNCHANGED two_vars
    /\ pc = "sleep"
    /\ now' = now + poll_interval
    /\ sleeps' = sleeps + 1
    /\ status_result' = None
    /\ pc' = "poll"
    /\ UNCHANGED <<op, body, api_key, text, submit_reply, response, payload,
                   video_id, max_wait,
                   poll_interval, start_time, outcome, seen, calls,
                   queried>>

\* wait_for_completion: the loop guard fails
timeout ==
    /\ UNCHANGED two_vars
    /\ pc = "poll"
    /\ ~LoopGuard(now, start_time, max_wait)
    /\ Finish(TimeoutOutcome)
    /\ UNCHANGED <<op, body, api_key, text, submit_reply, now, payload, video_id,
                   max_wait,
                   poll_interval, start_time, status_result, seen, calls,
                   queried, sleeps>>

\* list_avatars view, whole
list_avatars ==
    /\ UNCHANGED two_vars
    /\ pc = "start"
    /\ op = "list_avatars"
    /\ IF KeyMissing(api_key)
       THEN /\ response' = KeyNotConfigured
            /\ UNCHANGED <<now, calls>>
       ELSE \E reply \in CatalogReplies("avatars"), d \in CallTimes :
              /\ now' = now + d
              /\ calls' = [calls EXCEPT !.catalog = @ + 1]
              /\ response' = catalog_result(client_list_avatars(reply), "avatars",
                                            "Failed to fetch avatars")
    /\ pc' = "done"
    /\ UNCHANGED <<op, body, api_key, text, submit_reply, payload, waiter_vars>>

\* list_voices view, whole
list_voices ==
    /\ UNCHANGED two_vars
    /\ pc = "start"
    /\ op = "list_voices"
    /\ IF KeyMissing(api_key)
       THEN /\ response' = KeyNotConfigured
            /\ UNCHANGED <<now, calls>>
       ELSE \E reply \in CatalogReplies("voices"), d \in CallTimes :
              /\ now' = now + d
              /\ calls' = [calls EXCEPT !.catalog = @ + 1]
              /\ response' = catalog_result(client_list_voices(reply), "voices",
                                            "Failed to fetch voices")
    /\ pc' = "done"
    /\ UNCHANGED <<op, body, api_key, text, submit_reply, payload, waiter_vars>>

\* test_api view, whole
test_api ==
    /\ UNCHANGED two_vars
    /\ pc = "start"
    /\ op = "test_api"
    /\ IF KeyMissing(api_key)
       THEN /\ response' = JsonResponse(
                   [success |-> FALSE,
                    error |-> Str("API key not found in environment")], 200)
            /\ UNCHANGED <<now, calls>>
       ELSE \E reply \in CatalogReplies("avatars"), d \in CallTimes :
              /\ now' = now + d
              /\ calls' = [calls EXCEPT !.catalog = @ + 1]
              /\ response' = test_api_result(client_list_avatars(reply))
    /\ pc' = "done"
    /\ UNCHANGED <<op, body, api_key, text, submit_reply, payload, waiter_vars>>

Next ==
    \/ generate_video
    \/ submit
    \/ enter
    \/ poll
    \/ sleep
    \/ timeout
    \/ list_avatars
    \/ list_voices
    \/ test_api

Spec == Init /\ [][Next]_vars

\* every call in progress goes on: HTTP calls return or time out, sleeps end
LiveSpec == Spec /\ WF_vars(Next)

(***************************************************************************)
(* Two generate_video requests served at the same time, each by a thread   *)
(* of its own.  Every step of a thread is one action, so the steps of the  *)
(* two requests interleave in every order.                                 *)
(***************************************************************************)
MaxLead == 1

Requests == {1, 2}

\* when the second request arrives, on the clock of its thread
Arrivals == {0, 7}

\* slip: video_id and start_time are module-level globals
Frame_Shared(r) == 1

\* the call frame that holds the locals of request r: each call of the view
\* has its own
Frame(r) == r

\* A job of the provider answers its first status calls as its lead says,
\* then for good as its final says; a job that never ends keeps every later
\* call until the HTTP timeout.
Leads == UNION {[1..n -> {"pending", "conn_error"}] : n \in 0..MaxLead}
Finals == {"completed", "failed", "never"}
Behaviours == [lead : Leads, final : Finals]

StatusOk(d) == Reply(200, Dict([code |-> Num(SUCCESS_CODE), data |-> d]))

PendingReply == StatusOk(Dict([status |-> Str("processing")]))

CompletedReply(h) ==
    StatusOk(Dict([status |-> Str("completed"),
                   video_url |-> Str("https://cdn/" \o h.s \o ".mp4"),
                   thumbnail_url |-> Str("https://cdn/" \o h.s \o ".jpg"),
                   duration |-> Num(7)]))

FailedReply(h) ==
    StatusOk(Dict([status |-> Str("failed"),
                   error |-> Dict([message |-> Str("job " \o h.s \o " failed")])]))

\* the reply to the status call number n + 1 about job h, and how long the
\* call takes
ProviderAnswer(h, b, n) ==
    IF n < Len(b.lead)
    THEN [reply |-> IF b.lead[n + 1] = "pending" THEN PendingReply ELSE ConnError,
          took |-> 0]
    ELSE CASE b.final = "completed" -> [reply |-> CompletedReply(h), took |-> 0]
           [] b.final = "failed" -> [reply |-> FailedReply(h), took |-> 0]
           [] b.final = "never" -> [reply |-> PendingReply, took |-> HTTP_TIMEOUT]

\* the reply to a submit POST that the provider accepts as job h
SubmitOk(h) == Reply(200, Dict([data |-> Dict([video_id |-> h])]))

\* the handle the provider gives to the next job: a handle is never reused
NextHandle(issued) == IF issued = 0 THEN Str("v1") ELSE Str("v2")

ConcBody == Dict([prompt |-> Str("hello")])

ConcInit ==
    /\ Idle
    /\ op = "generate_video"
    /\ api_key = Str("sk-test")
    /\ body = ConcBody
    /\ text = None
    /\ pc = "start"
    /\ video_id = None
    /\ max_wait = 0
    /\ poll_interval = 0
    /\ \E arrival \in Arrivals :
         threads = [r \in Requests |->
                      [pc |-> "start", clock |-> IF r = 1 THEN 0 ELSE arrival,
                       handle |-> None, asked |-> {}, response |-> None]]
    /\ frames = [f \in Requests |-> [video_id |-> None, start_time |-> 0]]
    /\ \E script \in [JobIds -> Behaviours] :
         provider = [script |-> script, issued |-> 0,
                     served |-> [h \in JobIds |-> 0]]

\* request r, from its arrival to the call of wait_for_completion and
\* start_time = time.time()
conc_submit(r) ==
    /\ threads[r].pc = "start"
    /\ ~generate_video_checks(body, api_key).responds
    /\ \E reply \in {SubmitOk(NextHandle(provider.issued)), ConnError} :
         LET submitted == generate_video_submitted(client_generate_video(reply, TRUE))
         IN IF submitted.responds
            THEN /\ threads' = [threads EXCEPT ![r].pc = "done",
                                               ![r].response = submitted.response]
                 /\ UNCHANGED <<frames, provider>>
            ELSE /\ threads' = [threads EXCEPT ![r].pc = "poll",
                                               ![r].handle = NextHandle(provider.issued)]
                 /\ frames' = [frames EXCEPT ![Frame(r)] =
                                  [video_id |-> submitted.video_id,
                                   start_time |-> threads[r].clock]]
                 /\ provider' = [provider EXCEPT !.issued = @ + 1]
    /\ UNCHANGED one_vars

\* request r: the loop guard holds, one pass through the loop body
conc_poll(r) ==
    /\ threads[r].pc = "poll"
    /\ LoopGuard(threads[r].clock, frames[Frame(r)].start_time, VIEW_MAX_WAIT)
    /\ LET id == frames[Frame(r)].video_id
           a == ProviderAnswer(id, provider.script[id], provider.served[id])
           step == LoopBody(check_status(a.reply))
       IN /\ provider' = [provider EXCEPT !.served[id] = @ + 1]
          /\ threads' = [threads EXCEPT
                 ![r].clock = @ + a.took,
                 ![r].asked = @ \cup {id},
                 ![r].pc = IF step.returns THEN "done" ELSE "sleep",
                 ![r].response = IF step.returns
                                 THEN generate_video_result(step.outcome, id)
                                 ELSE @]
    /\ UNCHANGED frames
    /\ UNCHANGED one_vars

\* request r: time.sleep(poll_interval)
conc_sleep(r) ==
    /\ threads[r].pc = "sleep"
    /\ threads' = [threads EXCEPT ![r].clock = @ + VIEW_POLL_INTERVAL,
                                  ![r].pc = "poll"]
    /\ UNCHANGED <<frames, provider>>
    /\ UNCHANGED one_vars

\* request r: the loop guard fails
conc_timeout(r) ==
    /\ threads[r].pc = "poll"
    /\ ~LoopGuard(threads[r].clock, frames[Frame(r)].start_time, VIEW_MAX_WAIT)
    /\ threads' = [threads EXCEPT
           ![r].pc = "done",
           ![r].response = generate_video_result(TimeoutOutcome,
                                                 frames[Frame(r)].video_id)]
    /\ UNCHANGED <<frames, provider>>
    /\ UNCHANGED one_vars

ConcNext ==
    \/ \E r \in Requests : conc_submit(r)
    \/ \E r \in Requests : conc_poll(r)
    \/ \E r \in Requests : conc_sleep(r)
    \/ \E r \in Requests : conc_timeout(r)

ConcSpec == ConcInit /\ [][ConcNext]_vars

\* wait_for_completion(h) run on its own against job h that behaves as b:
\* n status calls were made, elapsed is the time since start_time
RECURSIVE SoloWait(_, _, _, _)
SoloWait(h, b, n, elapsed) ==
    IF ~LoopGuard(elapsed, 0, VIEW_MAX_WAIT) THEN TimeoutOutcome
    ELSE LET a == ProviderAnswer(h, b, n)
             step == LoopBody(check_status(a.reply))
         IN IF step.returns THEN step.outcome
            ELSE SoloWait(h, b, n + 1, elapsed + a.took + VIEW_POLL_INTERVAL)

\* what the view answers to a request that is served on its own and whose
\* job is h
SoloResponse(h, b) == generate_video_result(SoloWait(h, b, 0, 0), h)

(***************************************************************************)
(* Properties of wait_for_completion.                                      *)
(***************************************************************************)
WaiterReturned == pc = "done" /\ outcome # None

\* the data object of a check_status result that carries one
DataOf(res) == Get(res.value, "data", EmptyDict)

\* the check_status result is a well-formed payload with the given job status
HasStatus(res, st) ==
    /\ res # None
    /\ ~res.raised
    /\ IsDict(res.value)
    /\ Get(res.value, "code", None) = Num(SUCCESS_CODE)
    /\ IsDict(DataOf(res))
    /\ Get(DataOf(res), "status", None) = Str(st)

\* C1: an outcome with success=true was returned on a status response that
\* reported 'completed' and carried a present, non-null video URL, and that
\* URL is the outcome's video_url.
C1_SuccessHasUsableUrl ==
    (WaiterReturned /\ outcome.success) =>
        /\ HasStatus(status_result, "completed")
        /\ "video_url" \in DOMAIN DataOf(status_result).items
        /\ DataOf(status_result).items.video_url # None
        /\ outcome.video_url = DataOf(status_result).items.video_url

\* C2: the status of every outcome wait_for_completion returns is completed,
\* failed or timeout, whatever the provider answered on the way.
C2_TerminalStatusOnly ==
    WaiterReturned => outcome.status \in {Str("completed"), Str("failed"), Str("timeout")}

\* the waiter returned after the provider had answered with a running job,
\* with an unknown or missing status and with a failing call
C2_Witness ==
    /\ WaiterReturned
    /\ {"raised", "pending", "malformed"} \subseteq seen
    /\ outcome.status = Str("completed")

\* the error detail "x" of a failed job, in either shape a provider sends it
HasProviderError(res, x) ==
    /\ HasStatus(res, "failed")
    /\ Get(DataOf(res), "error", None) \in {Str(x), Dict([message |-> Str(x)])}

\* C3: a status response 'failed' with provider error "x" makes the waiter
\* return success=false with error "x" at once: no sleep, no further call.
C3_FailedReturnsError ==
    HasProviderError(status_result, "x") =>
        /\ WaiterReturned
        /\ ~outcome.success
        /\ outcome.error = Str("x")

\* C4: a status call that raises does not end the wait: the waiter sleeps one
\* poll interval and polls again; a later 'completed' gives success=true; and
\* when every status call raised, the only outcome is the timeout.
C4_TransientErrorsRetried ==
    /\ []((status_result # None /\ status_result.raised)
            => (pc = "sleep" /\ outcome = None))
    /\ [][pc = "sleep" => (pc' = "poll" /\ now' = now + poll_interval /\ calls' = calls)]_vars
    /\ [](HasStatus(status_result, "completed") => (WaiterReturned /\ outcome.success))
    /\ []((WaiterReturned /\ seen \subseteq {"raised"}
             /\ (status_result = None \/ status_result.raised))
            => outcome = TimeoutOutcome)

\* the waiter returned success after a status call that raised
C4_Witness ==
    /\ WaiterReturned
    /\ outcome.success
    /\ "raised" \in seen

\* C5: with a positive poll interval (and a wait that fits the MaxCalls status
\* calls the model follows) wait_for_completion returns; and when the provider
\* only ever answered with a running job or a failing call, it returns the
\* timeout outcome.
C5_Terminates ==
    /\ (pc \in {"enter", "poll", "sleep"} /\ poll_interval > 0
          /\ max_wait <= poll_interval * MaxCalls) ~> (pc = "done")
    /\ []((WaiterReturned /\ seen \subseteq {"raised", "pending"}
             /\ (status_result = None \/ Kind(status_result) \in {"raised", "pending"}))
            => outcome = TimeoutOutcome)

\* the provider answered 'processing'-like on every one of several status
\* calls and the waiter returned the timeout
C5_Witness ==
    /\ WaiterReturned
    /\ poll_interval > 0
    /\ calls.status >= 2
    /\ seen = {"pending"}
    /\ outcome = TimeoutOutcome

\* C6: after k answers with a running job and then 'completed', the waiter
\* returns success with the response's URL after k+1 status calls; there is
\* exactly one sleep, of poll_interval, between two consecutive status calls
\* and none after the last.
C6_CompletedAfterPending ==
    /\ []((HasStatus(status_result, "completed") /\ seen \subseteq {"pending"})
            => /\ WaiterReturned
               /\ outcome.success
               /\ outcome.video_url = Get(DataOf(status_result), "video_url", None)
               /\ sleeps = calls.status - 1)
    /\ [](pc = "poll" => sleeps = calls.status)
    /\ [](pc = "sleep" => sleeps = calls.status - 1)
    /\ [][sleeps' # sleeps => (sleeps' = sleeps + 1 /\ now' = now + poll_interval)]_vars
    /\ [][calls'.status # calls.status => calls'.status = sleeps + 1]_vars

\* two answers 'processing'-like, then 'completed' with a URL on the third call
C6_Witness ==
    /\ WaiterReturned
    /\ HasStatus(status_result, "completed")
    /\ outcome.success
    /\ outcome.video_url \in VideoUrls
    /\ seen = {"pending"}
    /\ calls.status = 3
    /\ sleeps = 2

\* the check_status result is a payload whose code is not the success code
IsAppError(res) ==
    /\ res # None
    /\ ~res.raised
    /\ IsDict(res.value)
    /\ Get(res.value, "code", None) # Num(SUCCESS_CODE)

\* C7: a status response with an application-level code other than 100 makes
\* the waiter return success=false with the provider's message at once; it is
\* not retried.
C7_AppErrorNotRetried ==
    IsAppError(status_result) =>
        /\ WaiterReturned
        /\ ~outcome.success
        /\ outcome.status = Str("failed")
        /\ outcome.error = Get(status_result.value, "message", Str("Unknown error"))

\* an application error with a message came back on a later poll
C7_Witness ==
    /\ IsAppError(status_result)
    /\ Get(status_result.value, "message", None) = Str("video not found")
    /\ sleeps > 0
    /\ WaiterReturned

(***************************************************************************)
(* Properties of the views.                                                *)
(***************************************************************************)
Answered == pc = "done" /\ response # None

\* no request goes out before the view answers, and it answers as a failure
\* with the given HTTP status
RejectedWith(codes) ==
    /\ calls = NoCalls
    /\ pc \in {"start", "done"}
    /\ pc = "done" => (response.status_code \in codes /\ ~response.json.success)

\* the request carries no prompt, or an empty one
NoPrompt(raw) == ~IsDict(raw) \/ Get(raw, "prompt", None) \in {None, Str("")}

\* C8: a generate_video request whose prompt is missing or empty gets a
\* client-error response with success=false, and no outbound HTTP call is made.
C8_NoPromptRejected ==
    (op = "generate_video" /\ NoPrompt(body)) => RejectedWith({400})

AspectRatios == {Str("16:9"), Str("9:16"), Str("1:1"), Str("4:3")}

\* the request carries a duration outside [3,10] or an aspect ratio outside
\* the enumerated set
OutOfRange(raw) ==
    /\ IsDict(raw)
    /\ \/ /\ "duration" \in DOMAIN raw.items
          /\ raw.items.duration.n \notin 3..10
       \/ /\ "aspect_ratio" \in DOMAIN raw.items
          /\ raw.items.aspect_ratio \notin AspectRatios

BadPrompt(raw) ==
    LET prompt == Get(raw, "prompt", None) IN
    ~Truthy(prompt) \/ (HasLen(prompt) /\ PyLen(prompt) > MAX_TEXT)

ConfigErrors ==
    {Str("API key not configured. Add HEYGEN_API_KEY to your .env file"),
     Str("API key not configured"),
     Str("API key not found in environment")}

\* the request passes every check the generate_video view makes before it
\* reads the key
PassesChecks(raw) ==
    /\ IsDict(raw)
    /\ Truthy(Get(raw, "prompt", None))
    /\ HasLen(Get(raw, "prompt", None))
    /\ ~BadPrompt(raw)

SubmitFailed(reply) ==
    IF reply.kind = "conn_error" THEN TRUE
    ELSE IF raise_for_status(reply) THEN TRUE
    ELSE /\ reply.json
         /\ IsDict(reply.value)
         /\ Truthy(Get(reply.value, "error", None))

\* C11: while it handles one request, generate_video issues at most one
\* submit POST, and when that POST fails (transport error, non-2xx status or
\* a provider error field) it answers with status 500 and success=false
\* without any status call.
C11_SubmitFailureNotRetried ==
    op = "generate_video" =>
        /\ calls.submit <= 1
        /\ (submit_reply # None /\ SubmitFailed(submit_reply)) =>
              /\ Answered
              /\ response.status_code = 500
              /\ ~response.json.success
              /\ calls.status = 0
              /\ queried = {}

\* the provider answered the submit POST with an error field next to a job
\* id, and the view answered 500 without asking for the status of that job
C11_Witness ==
    /\ op = "generate_video"
    /\ calls.submit = 1
    /\ submit_reply.kind = "reply"
    /\ submit_reply.json
    /\ IsDict(submit_reply.value)
    /\ Truthy(Get(submit_reply.value, "error", None))
    /\ Truthy(Get(Get(submit_reply.value, "data", EmptyDict), "video_id", None))
    /\ Answered
    /\ response.status_code = 500
    /\ calls.status = 0

\* C12: when wait_for_completion returns the timeout outcome, what the
\* generate_video view answers is a failed outcome that carries status
\* 'timeout', and it is not a server-error (5xx) response.
C12_TimeoutNotServerError ==
    (op = "generate_video" /\ Answered /\ outcome = TimeoutOutcome) =>
        /\ ~response.json.success
        /\ "status" \in DOMAIN response.json
        /\ response.json.status = Str("timeout")
        /\ response.status_code < 500

(***************************************************************************)
(* Properties of all four views.                                           *)
(***************************************************************************)
\* a message a person can read: a string that is not empty
Readable(v) == v.type = "str" /\ v.s # ""

\* C13: every response of generate_video, list_avatars, list_voices and
\* test_api carries a boolean success flag, and every response with
\* success=false carries a human-readable error message.
C13_SuccessFlagAndError ==
    (op \in Views /\ Answered) =>
        /\ "success" \in DOMAIN response.json
        /\ response.json.success \in BOOLEAN
        /\ ~response.json.success =>
              /\ "error" \in DOMAIN response.json
              /\ Readable(response.json.error)

(***************************************************************************)
(* Properties of HeyGenAPIClient.generate_video.                           *)
(***************************************************************************)
\* the characters of p are the characters of s at the same positions
SamePositions(p, s) ==
    /\ Len(p) <= Len(s)
    /\ \A i \in 1..Len(p) : SubSeq(p, i, i) = SubSeq(s, i, i)

\* C14: the text that HeyGenAPIClient.generate_video puts in the payload of
\* the submit POST is the first 1500 characters of its text argument when
\* the argument is longer than 1500 characters, and the argument itself
\* otherwise.
C14_TextTruncatedTo1500 ==
    (payload # None /\ text.type = "str") =>
        IF Len(text.s) > MAX_TEXT
        THEN /\ payload.input_text.type = "str"
             /\ Len(payload.input_text.s) = MAX_TEXT
             /\ SamePositions(payload.input_text.s, text.s)
        ELSE payload.input_text = text

\* a text of 1501 characters that ends in a "b" was sent without the "b"
C14_Witness ==
    /\ op = "HeyGenAPIClient.generate_video"
    /\ calls.submit = 1
    /\ text = Str(Rep(MAX_TEXT) \o "b")
    /\ payload.input_text = Str(Rep(MAX_TEXT))

(***************************************************************************)
(* Order of the steps of the generate_video view.                          *)
(***************************************************************************)
\* the job id that a reply to the submit POST carries, None when the POST
\* failed or the reply carries none
SubmittedId(reply) ==
    IF reply = None THEN None
    ELSE IF SubmitFailed(reply) THEN None
    ELSE IF ~reply.json THEN None
    ELSE IF ~IsDict(reply.value) THEN None
    ELSE LET data == Get(reply.value, "data", None) IN
         IF ~IsDict(data) THEN None ELSE Get(data, "video_id", None)

\* C16: within one generate_video request the order is validate, submit,
\* wait.  The submit POST is made only for a request that passed validation;
\* a status call is made only after a submit that succeeded and returned a
\* job id, and every status call passes exactly that id; when the submit
\* response carries no id the view answers success=false without polling.
C16_ValidateSubmitWait ==
    op = "generate_video" =>
        /\ calls.submit > 0 => (PassesChecks(body) /\ Truthy(api_key))
        /\ calls.status > 0 =>
              /\ calls.submit = 1
              /\ Truthy(SubmittedId(submit_reply))
              /\ queried = {SubmittedId(submit_reply)}
        /\ (calls.submit > 0 /\ ~Truthy(SubmittedId(submit_reply))) =>
              /\ Answered
              /\ ~response.json.success
              /\ calls.status = 0
              /\ queried = {}

\* the submit POST was answered without an error and without a job id, and
\* the view answered success=false without a status call
C16_Witness ==
    /\ op = "generate_video"
    /\ calls.submit = 1
    /\ ~SubmitFailed(submit_reply)
    /\ submit_reply.json
    /\ IsDict(submit_reply.value)
    /\ SubmittedId(submit_reply) \in {None, Str("")}
    /\ Answered
    /\ ~response.json.success
    /\ calls.status = 0

(***************************************************************************)
(* Timing of wait_for_completion.                                          *)
(***************************************************************************)
Elapsed == now - start_time

\* C17 as stated: for every max_wait, poll_interval and provider behaviour,
\* wait_for_completion returns no later than max_wait after it started.
C17_HardCeiling ==
    WaiterReturned => Elapsed <= max_wait

\* C17, amended: the deadline is looked at only at the head of the loop, so
\* the status call in progress and the sleep after it run to their end.
\* With status calls of at most HTTP_TIMEOUT each and max_wait > 0,
\* wait_for_completion returns a provider outcome less than
\* max_wait + HTTP_TIMEOUT after it started, and the timeout outcome less
\* than max_wait + HTTP_TIMEOUT + poll_interval after it started; with
\* max_wait <= 0 it returns the timeout outcome at once.
C17_CeilingPlusLastPass ==
    WaiterReturned =>
        IF max_wait <= 0
        THEN outcome = TimeoutOutcome /\ Elapsed = 0
        ELSE IF outcome = TimeoutOutcome
             THEN Elapsed < max_wait + HTTP_TIMEOUT + poll_interval
             ELSE Elapsed < max_wait + HTTP_TIMEOUT

\* a status call that began before the deadline and the sleep after it
\* ended after the deadline, and the timeout outcome came late
C17_Witness ==
    /\ WaiterReturned
    /\ max_wait > 0
    /\ outcome = TimeoutOutcome
    /\ Elapsed > max_wait
    /\ sleeps > 0

\* C18: a status call starts only when elapsed < max_wait at the loop guard;
\* the timeout outcome is returned only when the guard sees
\* elapsed >= max_wait; with max_wait <= 0 the timeout outcome is returned
\* after zero status calls; and a terminal response from a call that began
\* before the deadline is returned as the outcome even when the deadline
\* passed during that call.
C18_DeadlineAtLoopGuard ==
    [][/\ calls'.status # calls.status => Elapsed < max_wait
       /\ (outcome = None /\ outcome' = TimeoutOutcome) =>
             (Elapsed >= max_wait /\ now' = now /\ calls' = calls)
       /\ (outcome = None /\ outcome' # None /\ max_wait <= 0) =>
             (outcome' = TimeoutOutcome /\ calls'.status = 0)
       /\ (calls'.status # calls.status
              /\ Kind(status_result') = "terminal"
              /\ now' - start_time >= max_wait) =>
             (pc' = "done" /\ outcome' = LoopBody(status_result').outcome)
      ]_vars

(***************************************************************************)
(* What the generate_video view relays of the waiter's outcome.            *)
(***************************************************************************)
\* C19: the generate_video view answers success=true only when the submit
\* succeeded with a job id and wait_for_completion returned success=true;
\* the video_url of that response is the waiter's and its video_id is the id
\* the submit returned.  When the waiter returns success=false the view
\* answers success=false with the waiter's error and the same video_id.
C19_RelaysWaiterOutcome ==
    (op = "generate_video" /\ Answered) =>
        /\ response.json.success =>
              /\ Truthy(SubmittedId(submit_reply))
              /\ outcome # None
              /\ outcome.success
              /\ response.json.video_url = outcome.video_url
              /\ response.json.video_id = SubmittedId(submit_reply)
        /\ (outcome # None /\ ~outcome.success) =>
              /\ ~response.json.success
              /\ response.json.error = outcome.error
              /\ response.json.video_id = SubmittedId(submit_reply)

\* the waiter returned the provider's own failure message for job v2, and
\* the view answered with that message and that id
C19_Witness ==
    /\ op = "generate_video"
    /\ Answered
    /\ SubmittedId(submit_reply) = Str("v2")
    /\ outcome # None
    /\ ~outcome.success
    /\ outcome.error = Str("x")
    /\ response.json.error = Str("x")
    /\ response.json.video_id = Str("v2")

(***************************************************************************)
(* Two requests at the same time.                                          *)
(***************************************************************************)
\* C15: two generate_video requests that are served at the same time share
\* no mutable state.  In every interleaving of their steps each status call
\* of a request carries the job handle of that request and no other, and the
\* response to each request is the response it gets when served on its own
\* against the same provider replies for its handle.
C15_RequestsIndependent ==
    \A r \in Requests :
        LET t == threads[r] IN
        /\ t.asked \subseteq {t.handle}
        /\ t.handle = None => t.asked = {}
        /\ (t.pc = "done" /\ t.handle # None) =>
              t.response = SoloResponse(t.handle, provider.script[t.handle])

\* both requests were answered, the one that arrived second got the first
\* handle; its job was completed after a status call that failed, the other
\* job never ended
C15_Witness ==
    /\ \A r \in Requests : threads[r].pc = "done"
    /\ threads[2].handle = Str("v1")
    /\ threads[1].handle = Str("v2")
    /\ provider.served[Str("v1")] = 2
    /\ provider.served[Str("v2")] > 2
    /\ threads[2].response.json.success
    /\ threads[2].response.json.video_url = Str("https://cdn/v1.mp4")
    /\ threads[1].response.json.error = Str("Video generation timed out")
    /\ threads[1].response.json.video_id = Str("v2")

====
